---------------------------- MODULE Spec2Model ----------------------------
(***************************************************************************)
(* anvil2e: the local-first persistence layer.                             *)
(*                                                                         *)
(*   - src/unnamed/part_000 (lib/db/index.ts): the three PouchDB handles,  *)
(*     their lifecycle (initDatabases, closeDatabases, destroyDatabases)   *)
(*     and the replication handler of the characters database.             *)
(*   - src/anvil2e/src/lib/db/types.ts:234-514 and                         *)
(*     src/anvil2e/src/lib/data/loader.ts: the two builds of the bulk      *)
(*     importer (per-file manifest build, single-JSON build).              *)
(*   - src/anvil2e/src/lib/db/queries.ts: the query layer.                 *)
(*   - src/anvil2e/src/layouts/RootLayout.tsx: the start-up sequence.      *)
(*                                                                         *)
(* JavaScript is single-threaded: a synchronous function is one action, an *)
(* async function is cut at its awaits.                                    *)
(***************************************************************************)
EXTENDS Integers, Sequences, FiniteSets, TLC

\* ------------------------------------------------------------------ bounds
MaxInits == 2
MaxHandlers == 2
MaxGen == 2
MaxClock == 3
MaxHash == 2
MaxFiles == 2
MaxRuns == 2
MaxCalls == 2
MaxChars == 2
MaxLimit == 1

\* --------------------------------------------------------------- constants
DbNames == <<"gamedata", "characters", "preferences">>

GoodUrls == {"A", "B"}
\* "" is a name the PouchDB constructor rejects ("Missing/invalid DB name")
Urls == GoodUrls \cup {""}

VARIABLES
  \* ---- part_000: module state
  gamedataDB, charactersDB, preferencesDB,  \* 0 = null, g = the instance made by the g-th initDatabases
  charactersSyncHandler,                    \* 0 = null, h = index into handlers
  \* ---- PouchDB objects and storage
  nextInst,        \* number of initDatabases calls so far + 1
  closed,          \* {<<name, g>>}: instances on which close() resolved
  indexes,         \* [name -> set of declared index field lists]
  handlers,        \* sequence of [url, inst, cancelled, liveAtCreate]: every Sync object ever
                   \* made; liveAtCreate = the uncancelled handlers when it was made
  localRevs,       \* leaf revisions of the one character document, local store
  remoteRevs,      \* [url -> leaf revisions of that document in the remote store]
  prefsRevs,       \* leaf revisions of user_preferences
  gamedata,        \* documents of anvil2e_gamedata
  now,             \* the clock new Date() reads
  \* ---- control state of the async lifecycle functions
  op,              \* [name, step, caller]
  initDone,        \* an initDatabases() call has returned and closeDatabases has not nulled the handles since
  lastDone,        \* the lifecycle function that finished last, and how
  \* ---- observations of the last calls
  lastGet,         \* the last accessor call and its outcome
  lastSyncCall,    \* the last startCharactersSync / stopCharactersSync call and its outcome
  \* ---- the bulk importer
  variant,         \* the build of loadPack in use: "manifest" (types.ts:317) or "json" (loader.ts:84)
  packFiles,       \* the served content of a pack: a sequence of file kinds
  badPack,         \* the pack during whose import the network is down ("none": never)
  dataLoaded,      \* localStorage anvil2e_data_loaded = "true"
  dataLoadedAt,    \* localStorage anvil2e_data_loaded_at (0 = absent)
  runs,            \* the import runs (RootLayout initialize, loadOptionalGameData)
  submitted,       \* every document handed to bulkDocs so far, with the pack it came from
  snap,            \* [pack -> the pack's stored documents after the first bulkDocs call for it]
  callerDoc,       \* the revision a caller of the query layer holds (NoDoc = none)
  \* ---- the query layer
  pcalls,          \* the getPreferences / updatePreferences calls made so far
  qcall,           \* the character query in flight or finished last: [name, pc, doc, before, revsAfter]
  chars,           \* the character documents createCharacter has stored
  lastCreate,      \* the createCharacter call in flight or finished last
  lastUpdate,      \* the updateCharacter / deleteCharacter call on the collection, in flight or finished last
  lastFind         \* the queryGameData call finished last: [pc, query, result]

dbVars == <<gamedataDB, charactersDB, preferencesDB, nextInst, closed, indexes, op, initDone, lastDone>>
syncVars == <<charactersSyncHandler, handlers, lastSyncCall>>
replVars == <<localRevs, remoteRevs, now, callerDoc>>
loadVars == <<variant, packFiles, badPack, dataLoaded, dataLoadedAt, runs, submitted, snap>>
storeVars == <<prefsRevs, gamedata, loadVars>>
crudVars == <<chars, lastCreate, lastUpdate>>
queryVars == <<pcalls, qcall, crudVars, lastFind>>
vars == <<dbVars, syncVars, replVars, storeVars, lastGet, queryVars>>

\* ------------------------------------------------------------ revisions
\* A revision is [path, updatedAt, deleted]: path is the sequence of revision
\* hashes from the root, so Len(path) is the generation number of "N-hash";
\* deleted marks the tombstone db.remove writes.
Rev(path, t) == [path |-> path, updatedAt |-> t, deleted |-> FALSE]

\* the revision db.remove(doc) writes: { _id, _rev, _deleted: true }
Tombstone(path) == [path |-> path, updatedAt |-> 0, deleted |-> TRUE]

\* no document (null): the revision with the empty path
NoDoc == Rev(<<>>, 0)

IsPrefix(p, q) == Len(p) < Len(q) /\ SubSeq(q, 1, Len(p)) = p

\* the leaves of a revision tree given as a set of revisions
Leaves(revs) == {r \in revs : ~\E s \in revs : IsPrefix(r.path, s.path)}

\* PouchDB's deterministic winner (pouchdb-merge winningRev): a leaf that is
\* not deleted before a deleted one, then the leaf with the highest
\* generation, ties broken by the greater revision hash. The hash of a
\* revision is its path read from its own end.
HashLess(p, q) ==
  \E k \in DOMAIN p : p[k] < q[k] /\ \A j \in (k + 1)..Len(p) : p[j] = q[j]

RevLess(a, b) ==
  \/ a.deleted /\ ~b.deleted
  \/ /\ a.deleted = b.deleted
     /\ \/ Len(a.path) < Len(b.path)
        \/ Len(a.path) = Len(b.path) /\ HashLess(a.path, b.path)

Winner(revs) == CHOOSE r \in revs : \A s \in revs : s = r \/ RevLess(s, r)

\* ------------------------------------------------------------ part_000
Handle(name) ==
  CASE name = "gamedata" -> gamedataDB
    [] name = "characters" -> charactersDB
    [] name = "preferences" -> preferencesDB

\* isDatabasesInitialized (part_000:115-117)
isDatabasesInitialized == gamedataDB # 0 /\ charactersDB # 0 /\ preferencesDB # 0

\* isSyncActive (part_000:218-220)
isSyncActive == charactersSyncHandler # 0

LiveHandlers == {h \in 1..Len(handlers) : ~handlers[h].cancelled}

\* no lifecycle function is in flight
Idle == [name |-> "idle", step |-> 0, caller |-> "none"]

\* the six createIndex calls of createIndexes, in order (part_000:54-73)
IndexPlan == <<
  <<"gamedata", <<"type">> >>,
  <<"gamedata", <<"type", "system.level.value">> >>,
  <<"gamedata", <<"name">> >>,
  <<"characters", <<"level">> >>,
  <<"characters", <<"classId">> >>,
  <<"characters", <<"updatedAt">> >> >>

\* db.createIndex({index: {fields}}) (part_000:54-73): the index is added to
\* the store's indexes; an index on the same fields that exists already is
\* left as it is
createIndex_only(ixs, fields) == {fields}

createIndex(ixs, fields) == ixs \cup {fields}

\* a handle after createIndexes has rejected: the catch blocks log and
\* rethrow, the assignment made at the start is not undone (part_000:40-43,
\* 76-79)
HandleAfterFailedInit_null(h) == 0

HandleAfterFailedInit(h) == h

\* initDatabases up to its first await: the three handles are assigned, then
\* createIndexes starts (part_000:24-36, 49-54).
initDatabases_enter ==
  /\ op = Idle
  /\ nextInst <= MaxInits
  /\ gamedataDB' = nextInst
  /\ charactersDB' = nextInst
  /\ preferencesDB' = nextInst
  /\ nextInst' = nextInst + 1
  /\ op' = [name |-> "init", step |-> 1, caller |-> "none"]
  /\ UNCHANGED <<closed, indexes, initDone, lastDone>>

\* initDatabases called directly
initDatabases_begin ==
  /\ initDatabases_enter
  /\ UNCHANGED <<syncVars, replVars, storeVars, lastGet, queryVars>>

\* one createIndex resolves; after the sixth, createIndexes and then
\* initDatabases return (part_000:54-80, 38-39).
createIndexes_step ==
  /\ op.name = "init"
  /\ LET k == op.step
         db == IndexPlan[k][1]
     IN /\ indexes' = [indexes EXCEPT ![db] = createIndex(@, IndexPlan[k][2])]
        /\ IF k < Len(IndexPlan)
             THEN op' = [op EXCEPT !.step = k + 1] /\ UNCHANGED <<initDone, lastDone>>
             ELSE op' = Idle /\ initDone' = TRUE /\ lastDone' = "init"
  /\ UNCHANGED <<gamedataDB, charactersDB, preferencesDB, nextInst, closed>>
  /\ UNCHANGED <<syncVars, replVars, storeVars, lastGet, queryVars>>

\* a createIndex rejects: createIndexes rethrows, initDatabases rethrows; the
\* handles assigned at the start stay (part_000:76-79, 40-43).
createIndexes_fail ==
  /\ op.name = "init"
  /\ op' = Idle
  /\ lastDone' = "initFailed"
  /\ gamedataDB' = HandleAfterFailedInit(gamedataDB)
  /\ charactersDB' = HandleAfterFailedInit(charactersDB)
  /\ preferencesDB' = HandleAfterFailedInit(preferencesDB)
  /\ UNCHANGED <<nextInst, closed, indexes, initDone>>
  /\ UNCHANGED <<syncVars, replVars, storeVars, lastGet, queryVars>>

\* closeDatabases is entered, by a caller or by destroyDatabases
\* (part_000:122-123, 142-144).
closeDatabases_begin ==
  /\ op = Idle
  /\ op' = [name |-> "close", step |-> 1, caller |-> "none"]
  /\ UNCHANGED <<gamedataDB, charactersDB, preferencesDB, nextInst, closed, indexes, initDone, lastDone>>
  /\ UNCHANGED <<syncVars, replVars, storeVars, lastGet, queryVars>>

destroyDatabases_begin ==
  /\ op = Idle
  /\ op' = [name |-> "close", step |-> 1, caller |-> "destroy"]
  /\ UNCHANGED <<gamedataDB, charactersDB, preferencesDB, nextInst, closed, indexes, initDone, lastDone>>
  /\ UNCHANGED <<syncVars, replVars, storeVars, lastGet, queryVars>>

\* charactersSyncHandler after closeDatabases: the function closes and
\* nulls the three database handles and has no statement on the replication
\* handler (part_000:122-137)
SlotAfterClose_null(h) == 0

SlotAfterClose(h) == h

\* `if (db) await db.close()` for the three handles in turn, then the three
\* handles are set to null together (part_000:124-130).
closeDatabases_step ==
  /\ op.name = "close"
  /\ LET k == op.step
         h == Handle(DbNames[k])
     IN /\ closed' = IF h # 0 THEN closed \cup {<<DbNames[k], h>>} ELSE closed
        /\ IF k < 3
             THEN /\ op' = [op EXCEPT !.step = k + 1]
                  /\ UNCHANGED <<gamedataDB, charactersDB, preferencesDB, initDone, lastDone>>
             ELSE /\ gamedataDB' = 0
                  /\ charactersDB' = 0
                  /\ preferencesDB' = 0
                  /\ initDone' = FALSE
                  /\ IF op.caller = "destroy"
                       THEN /\ op' = [name |-> "destroy", step |-> 1, caller |-> "none"]
                            /\ UNCHANGED lastDone
                       ELSE /\ op' = Idle
                            /\ lastDone' = "close"
  /\ charactersSyncHandler' = SlotAfterClose(charactersSyncHandler)
  /\ UNCHANGED <<nextInst, indexes>>
  /\ UNCHANGED <<handlers, lastSyncCall, replVars, storeVars, lastGet, queryVars>>

\* `await new PouchDB(name).destroy()` for the three stores in turn: the
\* store's documents and indexes are gone (part_000:146-148). Nothing here
\* touches charactersSyncHandler.
destroyDatabases_step ==
  /\ op.name = "destroy"
  /\ LET k == op.step
         db == DbNames[k]
     IN /\ indexes' = [indexes EXCEPT ![db] = {}]
        /\ gamedata' = IF db = "gamedata" THEN {} ELSE gamedata
        /\ localRevs' = IF db = "characters" THEN {} ELSE localRevs
        /\ prefsRevs' = IF db = "preferences" THEN {} ELSE prefsRevs
        /\ op' = IF k < 3 THEN [op EXCEPT !.step = k + 1] ELSE Idle
        /\ lastDone' = IF k < 3 THEN lastDone ELSE "destroy"
  /\ UNCHANGED <<gamedataDB, charactersDB, preferencesDB, nextInst, closed, initDone>>
  /\ UNCHANGED <<syncVars, remoteRevs, now, callerDoc, lastGet, loadVars, queryVars>>

\* getGameDataDB / getCharactersDB / getPreferencesDB (part_000:85-110):
\* throws when the handle is null, returns it otherwise.
getDB(name) ==
  /\ lastGet' = [name |-> name, ok |-> Handle(name) # 0, initDone |-> initDone]
  /\ UNCHANGED <<dbVars, syncVars, replVars, storeVars, queryVars>>

\* ------------------------------------------------- replication handler
Cancel(hs, h) == [hs EXCEPT ![h].cancelled = TRUE]

\* the handler slot after the `if (charactersSyncHandler) cancel()` of
\* startCharactersSync (part_000:171-174)
startCancelOld_keep(hs, h) == hs

startCancelOld(hs, h) == IF h # 0 THEN Cancel(hs, h) ELSE hs

\* startCharactersSync (part_000:166-202)
startCharactersSync(url) ==
  /\ Len(handlers) < MaxHandlers
  /\ IF charactersDB = 0
       THEN \* throws "Characters database not initialized"
            /\ lastSyncCall' = [kind |-> "start", url |-> url, ok |-> FALSE]
            /\ UNCHANGED <<charactersSyncHandler, handlers>>
       ELSE LET hs == startCancelOld(handlers, charactersSyncHandler)
                live == {h \in 1..Len(hs) : ~hs[h].cancelled}
            IN IF url \notin GoodUrls
                 THEN \* new PouchDB(remoteUrl) throws: the slot keeps the old handler
                      /\ handlers' = hs
                      /\ lastSyncCall' = [kind |-> "start", url |-> url, ok |-> FALSE]
                      /\ UNCHANGED charactersSyncHandler
                 ELSE /\ handlers' = Append(hs, [url |-> url, inst |-> charactersDB,
                                                 cancelled |-> FALSE,
                                                 liveAtCreate |-> Cardinality(live)])
                      /\ charactersSyncHandler' = Len(hs) + 1
                      /\ lastSyncCall' = [kind |-> "start", url |-> url, ok |-> TRUE]
  /\ UNCHANGED <<dbVars, replVars, storeVars, lastGet, queryVars>>

\* stopCharactersSync (part_000:207-213)
stopCharactersSync ==
  /\ IF charactersSyncHandler # 0
       THEN /\ handlers' = Cancel(handlers, charactersSyncHandler)
            /\ charactersSyncHandler' = 0
       ELSE UNCHANGED <<charactersSyncHandler, handlers>>
  /\ lastSyncCall' = [kind |-> "stop", url |-> "", ok |-> TRUE]
  /\ UNCHANGED <<dbVars, replVars, storeVars, lastGet, queryVars>>

\* ------------------------------------------------- character documents
AllRevs == localRevs \cup UNION {remoteRevs[u] : u \in GoodUrls}

\* a revision hash identifies a revision: no two revisions share a path
FreshPath(p) == \A r \in AllRevs : r.path # p /\ ~IsPrefix(p, r.path)

\* db.put(doc) of a document carrying _rev (new_edits: true): accepted when
\* _rev is a leaf of the tree, which the new revision then replaces; a
\* 409 conflict otherwise.
PutAccepted(revs, rev) == rev \in revs

PutResult(revs, rev, hash, t) == (revs \ {rev}) \cup {Rev(Append(rev.path, hash), t)}

\* new Date() advances
tick ==
  /\ now < MaxClock
  /\ now' = now + 1
  /\ UNCHANGED <<dbVars, syncVars, localRevs, remoteRevs, callerDoc, storeVars, lastGet, queryVars>>

\* db.get(id): the winning revision; a 404 (NoDoc) when the document does
\* not exist or its winning revision is deleted
Get(revs) == IF revs = {} \/ Winner(revs).deleted THEN NoDoc ELSE Winner(revs)

\* the documents db.allDocs({include_docs: true}) lists (queries.ts:134-141)
AllCharacters(revs) == IF Get(revs) = NoDoc THEN {} ELSE {Get(revs)}

NoQuery == [name |-> "none", pc |-> "idle", doc |-> NoDoc, before |-> 0, revsAfter |-> {}]

\* no character query is between two of its awaits
QueryIdle == qcall.pc # "remove"

\* getCharacterById (queries.ts:151-166): db.get returns the winning
\* revision, or null for a 404.
getCharacterById ==
  /\ charactersDB # 0
  /\ QueryIdle
  /\ callerDoc' = Get(localRevs)
  /\ UNCHANGED <<dbVars, syncVars, localRevs, remoteRevs, now, storeVars, lastGet, queryVars>>

\* updatedAt: new Date().toISOString() (queries.ts:209), whatever the
\* document held before
UpdatedAt(doc, t) == t

\* what updateCharacter does with the 409 of db.put: the catch logs and
\* rethrows (queries.ts:218-221)
ConflictOutcome == "threw"

\* updateCharacter (queries.ts:201-222) of the document the caller holds:
\* updatedAt is set from the clock and the document is put.
updateCharacter ==
  /\ charactersDB # 0
  /\ QueryIdle
  /\ callerDoc # NoDoc
  /\ Len(callerDoc.path) < MaxGen
  /\ IF PutAccepted(localRevs, callerDoc)
       THEN \E hash \in 1..MaxHash :
              /\ FreshPath(Append(callerDoc.path, hash))
              /\ localRevs' = PutResult(localRevs, callerDoc, hash, UpdatedAt(callerDoc, now))
              /\ callerDoc' = Rev(Append(callerDoc.path, hash), UpdatedAt(callerDoc, now))
              /\ qcall' = [name |-> "update", pc |-> "done", doc |-> callerDoc',
                           before |-> Get(localRevs).updatedAt, revsAfter |-> localRevs']
       ELSE \* 409: logged and rethrown
            /\ UNCHANGED <<localRevs, callerDoc>>
            /\ qcall' = [name |-> "update", pc |-> ConflictOutcome, doc |-> callerDoc,
                         before |-> Get(localRevs).updatedAt, revsAfter |-> localRevs]
  /\ UNCHANGED <<dbVars, syncVars, remoteRevs, now, storeVars, lastGet, pcalls, crudVars, lastFind>>

\* deleteCharacter (queries.ts:227-237) up to its second await: db.get(id)
\* has settled; a 404 is logged and rethrown, else db.remove(doc) starts
deleteCharacter_get ==
  /\ charactersDB # 0
  /\ QueryIdle
  /\ qcall' = IF Get(localRevs) = NoDoc
                THEN [name |-> "delete", pc |-> "threw", doc |-> NoDoc,
                      before |-> 0, revsAfter |-> localRevs]
                ELSE [name |-> "delete", pc |-> "remove", doc |-> Get(localRevs),
                      before |-> Get(localRevs).updatedAt, revsAfter |-> localRevs]
  /\ UNCHANGED <<dbVars, syncVars, replVars, storeVars, lastGet, pcalls, crudVars, lastFind>>

\* `await db.remove(doc)` has settled (queries.ts:232-236): a tombstone
\* replaces doc._rev when that is still a leaf; a 409 conflict otherwise
deleteCharacter_remove ==
  /\ qcall.pc = "remove"
  /\ IF PutAccepted(localRevs, qcall.doc)
       THEN \E hash \in 1..MaxHash :
              /\ FreshPath(Append(qcall.doc.path, hash))
              /\ localRevs' = (localRevs \ {qcall.doc}) \cup {Tombstone(Append(qcall.doc.path, hash))}
              /\ qcall' = [qcall EXCEPT !.pc = "done", !.revsAfter = localRevs']
       ELSE /\ UNCHANGED localRevs
            /\ qcall' = [qcall EXCEPT !.pc = "threw", !.revsAfter = localRevs]
  /\ UNCHANGED <<dbVars, syncVars, remoteRevs, now, callerDoc, storeVars, lastGet, pcalls, crudVars, lastFind>>

\* another device writes its edit of the character to the remote store
remoteWrite(u) ==
  /\ remoteRevs[u] # {}
  /\ LET cur == Winner(remoteRevs[u])
     IN /\ ~cur.deleted
        /\ Len(cur.path) < MaxGen
        /\ \E hash \in 1..MaxHash :
             /\ FreshPath(Append(cur.path, hash))
             /\ remoteRevs' = [remoteRevs EXCEPT ![u] = PutResult(@, cur, hash, now)]
  /\ UNCHANGED <<dbVars, syncVars, localRevs, now, callerDoc, storeVars, lastGet, queryVars>>

\* a Sync object replicates while it is not cancelled and its local
\* instance is open (part_000:179-182: live, retry)
Replicating(h) == ~handlers[h].cancelled /\ <<"characters", handlers[h].inst>> \notin closed

\* what one direction of PouchDB replication leaves in the target: every
\* revision of the source is added to the target's tree; no revision is
\* dropped and no field of a document is consulted.
Replicate(source, target) == Leaves(source \cup target)

\* the push half of the handler: local -> remote
syncPush(h) ==
  /\ Replicating(h)
  /\ remoteRevs' = [remoteRevs EXCEPT ![handlers[h].url] = Replicate(localRevs, @)]
  /\ remoteRevs' # remoteRevs
  /\ UNCHANGED <<dbVars, syncVars, localRevs, now, callerDoc, storeVars, lastGet, queryVars>>

\* the pull half of the handler: remote -> local
syncPull(h) ==
  /\ Replicating(h)
  /\ localRevs' = Replicate(remoteRevs[handlers[h].url], localRevs)
  /\ localRevs' # localRevs
  /\ UNCHANGED <<dbVars, syncVars, remoteRevs, now, callerDoc, storeVars, lastGet, queryVars>>

\* ------------------------------------------------------ bulk importer
\* CORE_PACKS (types.ts:249-258, loader.ts:16-25)
CORE_PACKS == <<"ancestries", "backgrounds", "classes", "classfeatures",
                "feats", "spells", "equipment", "actions">>

\* OPTIONAL_PACKS (types.ts:263-269, loader.ts:30-36)
OPTIONAL_PACKS == <<"bestiary", "bestiary-ability-glossary-srd", "conditions",
                    "deities", "domains">>

Range(seq) == {seq[i] : i \in DOMAIN seq}

AllPacks == Range(CORE_PACKS) \cup Range(OPTIONAL_PACKS)

\* getTypeFromPackName (types.ts:427-442, loader.ts:168-183)
getTypeFromPackName(packName) ==
  CASE packName = "ancestries" -> "ancestry"
    [] packName = "backgrounds" -> "background"
    [] packName = "classes" -> "class"
    [] packName = "feats" -> "feat"
    [] packName = "spells" -> "spell"
    [] packName = "equipment" -> "equipment"
    [] packName = "actions" -> "action"
    [] packName = "bestiary" -> "bestiary"
    [] packName = "conditions" -> "condition"
    [] packName = "deities" -> "deity"
    [] OTHER -> "feat"

\* batchSize (types.ts:346)
batchSize == 50

\* a served file is valid JSON carrying _id ("id"), valid JSON without _id
\* ("noid"), or fails to fetch or parse ("bad"; in the single-JSON build: a
\* null entry of the array)
Kinds == {"id", "noid", "bad"}

FileConfigs == UNION {[1..n -> Kinds] : n \in 0..MaxFiles}

\* the packs whose import may meet a failed fetch: none, a core pack, an
\* optional pack
BadPacks == {"none", "classes", "conditions"}

\* manifest.json as scripts/generate-manifest.js:14-38 writes it: an entry
\* for the core packs only
Manifest(packName) == IF packName \in Range(CORE_PACKS) THEN packFiles ELSE <<>>

\* the GameDataDoc built from file i of a pack (types.ts:361-370,
\* loader.ts:119-128): _id is the source's own or is derived from the pack
\* and the file name (manifest build) or the document name (single-JSON
\* build); no _rev is set.
GameDataDocOf(packName, i) ==
  [id |-> IF packFiles[i] = "id" THEN <<"own", packName, i>>
          ELSE IF variant = "manifest" THEN <<"file", packName, i>>
          ELSE <<"name", packName, i>>,
   type |-> getTypeFromPackName(packName),
   name |-> i,
   rev |-> 0]

\* the documents of files lo..hi that fetched and parsed
DocsOfFiles(packName, lo, hi) ==
  LET F[k \in (lo - 1)..hi] ==
        IF k < lo THEN <<>>
        ELSE IF packFiles[k] = "bad" THEN F[k - 1]
        ELSE Append(F[k - 1], GameDataDocOf(packName, k))
  IN F[hi]

Min(a, b) == IF a <= b THEN a ELSE b

\* the stored documents that came from a pack
StoredOf(db, packName) == {d \in db : d.id[2] = packName}

\* db.bulkDocs(docs, {new_edits}) on the local (IndexedDB) adapter.
\* new_edits: false is the replication form: each document must carry the
\* _rev to store it under; a document without _rev is an "Invalid rev
\* format" error that rejects the call before anything is written, and of
\* a resolved call only the error rows are returned (a stored document
\* yields no row). new_edits: true: a document without _rev is stored when
\* its _id is new and is a 409 row otherwise.
bulkDocs_post(db, docs, new_edits) ==
  [rejected |-> FALSE,
   db |-> db \cup {[docs[i] EXCEPT !.id = <<"gen", docs[i].id[2], Cardinality(db) + i>>, !.rev = 1]
                   : i \in DOMAIN docs},
   oks |-> Len(docs)]

bulkDocs(db, docs, new_edits) ==
  IF new_edits
    THEN LET fresh == {i \in DOMAIN docs :
                         /\ \A d \in db : d.id # docs[i].id
                         /\ \A j \in 1..(i - 1) : docs[j].id # docs[i].id}
         IN [rejected |-> FALSE,
             db |-> db \cup {[docs[i] EXCEPT !.rev = 1] : i \in fresh},
             oks |-> Cardinality(fresh)]
    ELSE IF \E i \in DOMAIN docs : docs[i].rev = 0
           THEN [rejected |-> TRUE, db |-> db, oks |-> 0]
           ELSE [rejected |-> FALSE,
                 db |-> {d \in db : \A i \in DOMAIN docs : docs[i].id # d.id} \cup Range(docs),
                 oks |-> 0]

Event(packName, loaded, total, status) ==
  [pack |-> packName, loaded |-> loaded, total |-> total, status |-> status]

NoRun == [kind |-> "none", pc |-> "idle", list |-> <<>>, idx |-> 0, attempts |-> <<>>,
          failed |-> 0, i |-> 0, docs |-> <<>>, events |-> <<>>, outcome |-> "none",
          count |-> 0, total |-> 0, wrote |-> FALSE, caller |-> "none"]

Running(run) == run.pc \in {"awaitInit", "call", "manifest", "fetch", "batch", "write"}

\* what the catch around `await loadPack(...)` does with a rejected loadPack
\* (types.ts:459-462, 485-487): log and go on with the next pack
OnPackError_rethrow(kind) == "rethrow"

OnPackError(kind) == "continue"

\* the run after its current loadPack has returned count or thrown: the
\* for-loop of loadCoreGameData / loadOptionalGameData moves to the next pack
\* or ends (types.ts:454-466, 480-490)
Finish(run, outcome, count, events) ==
  LET base == [run EXCEPT !.outcome = outcome, !.count = count, !.events = events,
                          !.total = @ + count,
                          !.failed = IF outcome = "threw" THEN @ + 1 ELSE @]
  IN IF outcome = "threw" /\ OnPackError(run.kind) = "rethrow"
       THEN [base EXCEPT !.pc = "threw"]
       ELSE IF run.idx < Len(run.list)
         THEN [base EXCEPT !.idx = @ + 1, !.pc = "call"]
         ELSE [base EXCEPT !.idx = @ + 1, !.pc = "done"]

MarkIfCoreDone_any(old, new) ==
  IF new.pc = "done"
    THEN dataLoaded' = TRUE /\ dataLoadedAt' = now
    ELSE UNCHANGED <<dataLoaded, dataLoadedAt>>

MarkIfCoreDone_early(old, new) ==
  IF old.kind = "initialize" /\ new.pc \in {"call", "done"}
    THEN dataLoaded' = TRUE /\ dataLoadedAt' = now
    ELSE UNCHANGED <<dataLoaded, dataLoadedAt>>

\* markDataLoaded (types.ts:301-304) runs when the loop of loadCoreGameData
\* has ended (types.ts:465)
MarkIfCoreDone(old, new) ==
  IF old.kind = "initialize" /\ new.pc = "done"
    THEN dataLoaded' = TRUE /\ dataLoadedAt' = now
    ELSE UNCHANGED <<dataLoaded, dataLoadedAt>>

\* isDataLoaded (types.ts:294-296)
isDataLoaded == dataLoaded

\* RootLayout initialize from `if (!isDataLoaded())` on (RootLayout.tsx:31-42)
AfterInit_import(run) == [run EXCEPT !.pc = "call", !.list = CORE_PACKS, !.idx = 1]

AfterInit(run) ==
  IF ~isDataLoaded
    THEN [run EXCEPT !.pc = "call", !.list = CORE_PACKS, !.idx = 1]
    ELSE [run EXCEPT !.pc = "done"]

NextSlot(r) == runs[r].kind = "none" /\ \A q \in 1..(r - 1) : runs[q].kind # "none"

loadFrame == UNCHANGED <<syncVars, replVars, prefsRevs, lastGet, variant, packFiles, badPack, queryVars>>

\* RootLayout's effect calls initialize() (RootLayout.tsx:21-52): up to the
\* first await
initialize_start(r) ==
  /\ NextSlot(r)
  /\ IF ~isDatabasesInitialized
       THEN /\ initDatabases_enter
            /\ runs' = [runs EXCEPT ![r] = [NoRun EXCEPT !.kind = "initialize", !.pc = "awaitInit",
                                                    !.caller = "RootLayout"]]
       ELSE /\ runs' = [runs EXCEPT ![r] = AfterInit([NoRun EXCEPT !.kind = "initialize",
                                                              !.caller = "RootLayout"])]
            /\ UNCHANGED dbVars
  /\ UNCHANGED <<dataLoaded, dataLoadedAt, submitted, snap, gamedata>>
  /\ loadFrame

\* `await initDatabases()` has settled (RootLayout.tsx:27, 43-45)
initialize_resume(r) ==
  /\ runs[r].pc = "awaitInit"
  /\ op = Idle
  /\ runs' = [runs EXCEPT ![r] = IF lastDone = "init" THEN AfterInit(@)
                                  ELSE [@ EXCEPT !.pc = "error"]]
  /\ UNCHANGED <<dbVars, dataLoaded, dataLoadedAt, submitted, snap, gamedata>>
  /\ loadFrame

\* loadCoreGameData is called by other code than RootLayout, before
\* initDatabases() (types.ts:447-454): the same loop over CORE_PACKS
loadCoreGameData_start(r) ==
  /\ NextSlot(r)
  /\ gamedataDB = 0
  /\ \A q \in 1..MaxRuns : ~Running(runs[q])
  /\ runs' = [runs EXCEPT ![r] = [NoRun EXCEPT !.kind = "initialize", !.pc = "call",
                                               !.list = CORE_PACKS, !.idx = 1,
                                               !.caller = "direct"]]
  /\ UNCHANGED <<dbVars, dataLoaded, dataLoadedAt, submitted, snap, gamedata>>
  /\ loadFrame

\* loadOptionalGameData(packs) is called (types.ts:472-480)
loadOptionalGameData_start(r, packs) ==
  /\ NextSlot(r)
  /\ \A q \in 1..MaxRuns : ~Running(runs[q])
  /\ runs' = [runs EXCEPT ![r] = [NoRun EXCEPT !.kind = "optional", !.pc = "call",
                                               !.list = packs, !.idx = 1,
                                               !.caller = "direct"]]
  /\ UNCHANGED <<dbVars, dataLoaded, dataLoadedAt, submitted, snap, gamedata>>
  /\ loadFrame

\* loadPack is entered (types.ts:317-325, loader.ts:84-99): getGameDataDB()
\* stands before the try; then the manifest build fetches the manifest, the
\* single-JSON build reports "loading" and fetches the pack.
loadPack_begin(r) ==
  /\ runs[r].pc = "call"
  /\ LET run == runs[r]
         packName == run.list[run.idx]
         entered == [run EXCEPT !.attempts = Append(@, packName), !.events = <<>>,
                                !.outcome = "none", !.count = 0, !.docs = <<>>,
                                !.i = 0, !.wrote = FALSE]
         new == IF gamedataDB = 0
                  THEN Finish(entered, "threw", 0, <<>>)
                  ELSE IF variant = "manifest"
                    THEN [entered EXCEPT !.pc = "manifest"]
                    ELSE [entered EXCEPT !.pc = "fetch",
                                         !.events = <<Event(packName, 0, 0, "loading")>>]
     IN /\ runs' = [runs EXCEPT ![r] = new]
        /\ MarkIfCoreDone(run, new)
  /\ UNCHANGED <<dbVars, submitted, snap, gamedata>>
  /\ loadFrame

\* manifest build: the fetch of /data/manifest.json has settled
\* (types.ts:325-343)
loadPack_manifest(r) ==
  /\ runs[r].pc = "manifest"
  /\ LET run == runs[r]
           packName == run.list[run.idx]
           ok == packName # badPack
           files == Manifest(packName)
           new == IF ~ok
                    THEN Finish(run, "threw", 0, <<Event(packName, 0, 0, "error")>>)
                    ELSE IF Len(files) = 0
                      THEN Finish(run, "returned", 0, <<>>)
                      ELSE [run EXCEPT !.pc = "batch",
                                       !.events = <<Event(packName, 0, Len(files), "loading")>>]
       IN /\ runs' = [runs EXCEPT ![r] = new]
          /\ MarkIfCoreDone(run, new)
  /\ UNCHANGED <<dbVars, submitted, snap, gamedata>>
  /\ loadFrame

\* manifest build: the Promise.all of one batch has settled; after the last
\* batch bulkDocs is called (types.ts:349-391)
loadPack_batch(r) ==
  /\ runs[r].pc = "batch"
  /\ LET run == runs[r]
         packName == run.list[run.idx]
         files == Manifest(packName)
         hi == Min(run.i + batchSize, Len(files))
         docs == run.docs \o DocsOfFiles(packName, run.i + 1, hi)
         last == run.i + batchSize >= Len(files)
     IN /\ runs' = [runs EXCEPT ![r] =
                      [run EXCEPT !.docs = docs,
                                  !.i = @ + batchSize,
                                  !.events = Append(@, Event(packName, hi, Len(files), "loading")),
                                  !.pc = IF last THEN "write" ELSE "batch",
                                  !.wrote = last]]
        /\ submitted' = IF last THEN submitted \cup {[pack |-> packName, doc |-> docs[k]] : k \in DOMAIN docs}
                        ELSE submitted
  /\ UNCHANGED <<dbVars, dataLoaded, dataLoadedAt, snap, gamedata>>
  /\ loadFrame

\* single-JSON build: the fetch of /data/packs/<pack>.json has settled; the
\* documents are mapped and bulkDocs is called (loader.ts:99-132)
loadPack_fetch(r) ==
  /\ runs[r].pc = "fetch"
  /\ LET run == runs[r]
           packName == run.list[run.idx]
           ok == packName # badPack
           n == Len(packFiles)
           docs == DocsOfFiles(packName, 1, n)
           toWrite == ok /\ n > 0 /\ \A k \in 1..n : packFiles[k] # "bad"
           new == IF ~ok
                    THEN Finish(run, "threw", 0, Append(run.events, Event(packName, 0, 0, "error")))
                    ELSE IF n = 0
                      THEN Finish(run, "returned", 0, run.events)
                      ELSE IF ~toWrite
                        THEN Finish(run, "threw", 0, Append(run.events, Event(packName, 0, 0, "error")))
                        ELSE [run EXCEPT !.pc = "write", !.docs = docs, !.wrote = TRUE]
       IN /\ runs' = [runs EXCEPT ![r] = new]
          /\ MarkIfCoreDone(run, new)
          /\ submitted' = IF toWrite
                            THEN submitted \cup {[pack |-> packName, doc |-> docs[k]] : k \in DOMAIN docs}
                            ELSE submitted
  /\ UNCHANGED <<dbVars, snap, gamedata>>
  /\ loadFrame

\* `await db.bulkDocs(gameDataDocs, { new_edits: false })` has settled
\* (types.ts:391-421, loader.ts:132-162)
loadPack_write(r) ==
  /\ runs[r].pc = "write"
  /\ LET run == runs[r]
         packName == run.list[run.idx]
         total == IF variant = "manifest" THEN Len(Manifest(packName)) ELSE Len(run.docs)
         res == bulkDocs(gamedata, run.docs, FALSE)
         new == IF res.rejected
                  THEN Finish(run, "threw", 0, Append(run.events, Event(packName, 0, 0, "error")))
                  ELSE Finish(run, "returned", res.oks,
                              Append(run.events, Event(packName, res.oks, total, "complete")))
     IN /\ runs' = [runs EXCEPT ![r] = new]
        /\ gamedata' = res.db
        /\ snap' = IF snap[packName].taken
                     THEN snap
                     ELSE [snap EXCEPT ![packName] =
                             [taken |-> TRUE, docs |-> StoredOf(res.db, packName)]]
        /\ MarkIfCoreDone(run, new)
  /\ UNCHANGED <<dbVars, submitted>>
  /\ loadFrame

\* the page is reloaded or closed: module state and pending work are gone,
\* IndexedDB and localStorage stay
reload ==
  /\ \E r \in 1..MaxRuns : Running(runs[r])
  /\ runs' = [r \in 1..MaxRuns |-> IF Running(runs[r])
                                     THEN [NoRun EXCEPT !.kind = runs[r].kind, !.pc = "dead"]
                                     ELSE runs[r]]
  /\ gamedataDB' = 0 /\ charactersDB' = 0 /\ preferencesDB' = 0
  /\ op' = Idle
  /\ initDone' = FALSE
  /\ UNCHANGED <<nextInst, closed, indexes, lastDone>>
  /\ UNCHANGED <<dataLoaded, dataLoadedAt, submitted, snap, gamedata>>
  /\ loadFrame

\* ------------------------------------------------------- preferences
\* A preferences document is [rev, theme, sounds]: rev is the generation of
\* its _rev (0: the object carries no _rev), theme and sounds stand for the
\* fields of PreferencesDoc (types.ts:185-207).

\* defaultPrefs (queries.ts:297-312): built without _rev
defaultPrefs == [rev |-> 0, theme |-> "dark", sounds |-> FALSE]

\* the `updates` arguments of updatePreferences: Partial<Omit<PreferencesDoc,
\* "_id" | "_rev">> (queries.ts:327)
Partials == {[theme |-> "light"], [sounds |-> TRUE], [theme |-> "light", sounds |-> TRUE]}

\* { ...current, ...updates } (queries.ts:333-336)
Merge(current, updates) ==
  [f \in DOMAIN current \cup DOMAIN updates |->
     IF f \in DOMAIN updates THEN updates[f] ELSE current[f]]

\* db.put(doc) on the preferences store: a document without _rev is accepted
\* when user_preferences does not exist, a document with _rev when _rev is
\* the stored revision; a 409 conflict otherwise.
PrefsPutAccepted(store, doc) ==
  IF store = {} THEN doc.rev = 0 ELSE \E d \in store : d.rev = doc.rev

\* the store after an accepted put, and result.rev
PrefsPut(store, doc) == {[doc EXCEPT !.rev = @ + 1]}

NoCall == [kind |-> "none", pc |-> "idle", updates |-> <<>>, doc |-> defaultPrefs,
           wrote |-> FALSE, prior |-> {}]

Finished(call) == call.pc \in {"done", "threw"}

NextCall(c) == pcalls[c].kind = "none" /\ \A d \in 1..(c - 1) : pcalls[d].kind # "none"

prefsFrame == UNCHANGED <<dbVars, syncVars, replVars, gamedata, loadVars, lastGet, qcall, crudVars, lastFind>>

\* a call enters getPreferences / updatePreferences: getPreferencesDB()
\* throws when the handle is null (queries.ts:289, 329), else db.get starts
\* (queries.ts:292, 332)
StartedCall(c, kind, updates) ==
  [NoCall EXCEPT !.kind = kind, !.updates = updates,
                 !.pc = IF preferencesDB # 0 THEN "get" ELSE "threw",
                 !.prior = {d \in 1..(c - 1) : Finished(pcalls[d])}]

getPreferences_start(c) ==
  /\ NextCall(c)
  /\ pcalls' = [pcalls EXCEPT ![c] = StartedCall(c, "get", <<>>)]
  /\ UNCHANGED prefsRevs
  /\ prefsFrame

updatePreferences_start(c, updates) ==
  /\ NextCall(c)
  /\ pcalls' = [pcalls EXCEPT ![c] = StartedCall(c, "update", updates)]
  /\ UNCHANGED prefsRevs
  /\ prefsFrame

\* the call after its getPreferences() has returned `current`: getPreferences
\* returns it to its caller; updatePreferences merges and starts db.put
\* (queries.ts:332-338)
AfterGet(call, current) ==
  IF call.kind = "get"
    THEN [call EXCEPT !.pc = "done", !.doc = current]
    ELSE [call EXCEPT !.pc = "uput", !.doc = Merge(current, call.updates)]

\* `await db.get("user_preferences")` has settled (queries.ts:292-296)
getPreferences_get(c) ==
  /\ pcalls[c].pc = "get"
  /\ IF prefsRevs # {}
       THEN \E d \in prefsRevs : pcalls' = [pcalls EXCEPT ![c] = AfterGet(@, d)]
       ELSE pcalls' = [pcalls EXCEPT ![c].pc = "put"]
  /\ UNCHANGED prefsRevs
  /\ prefsFrame

\* `await db.put(defaultPrefs)` has settled; defaultPrefs itself is returned
\* (queries.ts:314-315); a rejected put leaves the catch block as the error
\* of the call
getPreferences_put(c) ==
  /\ pcalls[c].pc = "put"
  /\ IF PrefsPutAccepted(prefsRevs, defaultPrefs)
       THEN /\ prefsRevs' = PrefsPut(prefsRevs, defaultPrefs)
            /\ pcalls' = [pcalls EXCEPT ![c] = AfterGet([@ EXCEPT !.wrote = TRUE], defaultPrefs)]
       ELSE /\ pcalls' = [pcalls EXCEPT ![c].pc = "threw"]
            /\ UNCHANGED prefsRevs
  /\ prefsFrame

\* `await db.put(updated)` has settled (queries.ts:338-347)
updatePreferences_put(c) ==
  /\ pcalls[c].pc = "uput"
  /\ IF PrefsPutAccepted(prefsRevs, pcalls[c].doc)
       THEN /\ prefsRevs' = PrefsPut(prefsRevs, pcalls[c].doc)
            /\ pcalls' = [pcalls EXCEPT ![c].pc = "done", ![c].wrote = TRUE,
                                        ![c].doc.rev = @ + 1]
       ELSE /\ pcalls' = [pcalls EXCEPT ![c].pc = "threw"]
            /\ UNCHANGED prefsRevs
  /\ prefsFrame

\* --------------------------------------------------- createCharacter
\* A character document is a record: name stands for the fields of the
\* character sheet, id, rev, createdAt, updatedAt and version for _id, _rev
\* (its generation) and the fields of the same name.

\* the fields createCharacter's parameter type leaves out (queries.ts:172)
LeftOut == {"id", "rev", "createdAt", "updatedAt", "version"}

\* what a caller may pass all the same (the type is erased at run time)
Supplied == [id |-> <<0, 0>>, rev |-> 1, createdAt |-> 9, updatedAt |-> 9, version |-> 7]

Names == {"Amiri", "Ezren"}

\* the `character` arguments: a sheet, with any of the left-out fields
Inputs ==
  {[f \in {"name"} \cup extra |-> IF f = "name" THEN n ELSE Supplied[f]] :
     n \in Names, extra \in SUBSET LeftOut}

NoInput == [name |-> "Amiri"]

\* { ...character, _id, createdAt, updatedAt, version: 1 } (queries.ts:178-184)
newCharacter_inputWins(character, id, t) ==
  Merge([id |-> id, createdAt |-> t, updatedAt |-> t, version |-> 1], character)

newCharacter(character, id, t) ==
  Merge(character, [id |-> id, createdAt |-> t, updatedAt |-> t, version |-> 1])

\* `character_${Date.now()}_${Math.random()...}` (queries.ts:180): the clock
\* reading and a random suffix; no two documents get the same
FreshIds(t) == {<<t, k>> : k \in 1..(Cardinality(chars) + 1)} \ {d.id : d \in chars}

\* db.put(doc) of a document whose _id is not in the store: stored as
\* revision 1 when it carries no _rev, a 409 conflict when it does
NewDocAccepted(store, doc) ==
  /\ "rev" \notin DOMAIN doc
  /\ \A d \in store : d.id # doc.id

\* db.get(id) on the store: the document, or a 404
GetCreated(store, id) == {d \in store : d.id = id}

NoCreate == [pc |-> "idle", input |-> NoInput, doc |-> NoInput, at |-> 0, before |-> {}, after |-> {}]

crudFrame == UNCHANGED <<dbVars, syncVars, replVars, storeVars, lastGet, pcalls, qcall, lastFind, lastUpdate>>

\* createCharacter (queries.ts:171-186) up to its await: getCharactersDB()
\* throws when the handle is null, else newCharacter is built and db.put
\* starts
createCharacter_start(character) ==
  /\ lastCreate.pc # "put"
  /\ Cardinality(chars) < MaxChars
  /\ IF charactersDB = 0
       THEN lastCreate' = [NoCreate EXCEPT !.pc = "threw", !.input = character,
                                           !.before = chars, !.after = chars]
       ELSE \E id \in FreshIds(now) :
              lastCreate' = [pc |-> "put", input |-> character,
                             doc |-> newCharacter(character, id, now),
                             at |-> now, before |-> chars, after |-> chars]
  /\ UNCHANGED chars
  /\ crudFrame

\* `await db.put(newCharacter)` has settled (queries.ts:186-195)
createCharacter_put ==
  /\ lastCreate.pc = "put"
  /\ IF NewDocAccepted(chars, lastCreate.doc)
       THEN /\ chars' = chars \cup {Merge(lastCreate.doc, [rev |-> 1])}
            /\ lastCreate' = [lastCreate EXCEPT !.pc = "done",
                                                !.doc = Merge(@, [rev |-> 1]),
                                                !.after = chars']
       ELSE /\ UNCHANGED chars
            /\ lastCreate' = [lastCreate EXCEPT !.pc = "threw"]
  /\ crudFrame

\* ------------------------------ updateCharacter, deleteCharacter by _id
\* The characters collection as the set of its documents, each under its
\* _id (no replication: one revision per document).

\* an _id no createCharacter call has generated
OtherId == Supplied.id

\* plain sheets: what createCharacter's parameter type admits
Sheets == {[name |-> n] : n \in Names}

\* the CharacterDoc arguments of updateCharacter (types.ts:128-178, _rev is
\* optional): a stored document as read, or with its name edited, its _id
\* replaced, its _rev dropped or one generation old
IsEdit(character, store) ==
  \E d \in store :
    /\ character.createdAt = d.createdAt
    /\ character.updatedAt = d.updatedAt
    /\ character.id \in {e.id : e \in store} \cup {OtherId}
    /\ "rev" \in DOMAIN character => character.rev \in {d.rev, d.rev - 1}

\* every _id and every document a collection within the bounds can hold, and
\* those documents without _rev
CharIds == {<<t, k>> : t \in 1..MaxClock, k \in 1..MaxChars} \cup {OtherId}

CharacterDocs ==
  [name : Names, id : CharIds, rev : 1..MaxGen, createdAt : 1..MaxClock,
   updatedAt : 1..MaxClock, version : {1}]
  \cup [name : Names, id : CharIds, createdAt : 1..MaxClock,
        updatedAt : 1..MaxClock, version : {1}]

\* the identifiers under which a collection holds documents
Ids(store) == {d.id : d \in store}

\* { ...character, updatedAt: new Date().toISOString() } (queries.ts:207-210)
updatedCharacter_newId(character, t) ==
  Merge(character, [updatedAt |-> t, id |-> <<t, 0>>])

updatedCharacter(character, t) == Merge(character, [updatedAt |-> t])

\* db.put(doc) / db.remove(doc) on the collection: a document with _rev is
\* accepted when a document is stored under its _id at that revision, one
\* without _rev when nothing is stored under its _id; a 409 conflict
\* otherwise
DocAccepted(store, doc) ==
  IF "rev" \in DOMAIN doc
    THEN \E d \in store : d.id = doc.id /\ d.rev = doc.rev
    ELSE \A d \in store : d.id # doc.id

\* the collection after an accepted db.put(doc)
PutDoc(store, doc) ==
  LET next == IF "rev" \in DOMAIN doc THEN doc.rev + 1 ELSE 1
  IN {d \in store : d.id # doc.id} \cup {Merge(doc, [rev |-> next])}

NoUpdate == [fn |-> "none", pc |-> "idle", input |-> NoInput, doc |-> NoInput,
             before |-> {}, after |-> {}]

editFrame == UNCHANGED <<dbVars, syncVars, replVars, storeVars, lastGet, pcalls, qcall, lastFind, lastCreate>>

\* updateCharacter (queries.ts:201-212) up to its await
updateCharacter_start(character) ==
  /\ lastUpdate.pc \notin {"put", "get", "remove"}
  /\ IsEdit(character, chars)
  /\ \A d \in chars : d.rev < MaxGen
  /\ lastUpdate' = IF charactersDB = 0
                     THEN [NoUpdate EXCEPT !.fn = "update", !.pc = "threw", !.input = character,
                                           !.before = chars, !.after = chars]
                     ELSE [fn |-> "update", pc |-> "put", input |-> character,
                           doc |-> updatedCharacter(character, now),
                           before |-> chars, after |-> chars]
  /\ UNCHANGED chars
  /\ editFrame

\* `await db.put(updatedCharacter)` has settled (queries.ts:212-221)
updateCharacter_put ==
  /\ lastUpdate.pc = "put"
  /\ IF DocAccepted(chars, lastUpdate.doc)
       THEN /\ chars' = PutDoc(chars, lastUpdate.doc)
            /\ lastUpdate' = [lastUpdate EXCEPT
                                !.pc = "done",
                                !.doc = CHOOSE d \in chars' : d.id = lastUpdate.doc.id,
                                !.before = chars,
                                !.after = chars']
       ELSE /\ UNCHANGED chars
            /\ lastUpdate' = [lastUpdate EXCEPT !.pc = "threw", !.before = chars, !.after = chars]
  /\ editFrame

\* deleteCharacter(id) (queries.ts:227-231) up to `await db.get(id)`
deleteCharacter_getById(id) ==
  /\ lastUpdate.pc \notin {"put", "get", "remove"}
  /\ id \in Ids(chars) \cup {OtherId}
  /\ lastUpdate' = [NoUpdate EXCEPT !.fn = "delete",
                                    !.pc = IF charactersDB = 0 THEN "threw" ELSE "get",
                                    !.input = [id |-> id],
                                    !.before = chars, !.after = chars]
  /\ UNCHANGED chars
  /\ editFrame

\* db.get(id) has settled: a 404 is rethrown, else db.remove(doc) starts
\* (queries.ts:231-236)
deleteCharacter_gotDoc ==
  /\ lastUpdate.pc = "get"
  /\ LET found == GetCreated(chars, lastUpdate.input.id)
     IN lastUpdate' = IF found = {}
                        THEN [lastUpdate EXCEPT !.pc = "threw", !.before = chars, !.after = chars]
                        ELSE [lastUpdate EXCEPT !.pc = "remove", !.doc = CHOOSE d \in found : TRUE]
  /\ UNCHANGED chars
  /\ editFrame

\* `await db.remove(doc)` has settled (queries.ts:232-236)
deleteCharacter_removeDoc ==
  /\ lastUpdate.pc = "remove"
  /\ IF DocAccepted(chars, lastUpdate.doc)
       THEN /\ chars' = {d \in chars : d.id # lastUpdate.doc.id}
            /\ lastUpdate' = [lastUpdate EXCEPT !.pc = "done", !.before = chars, !.after = chars']
       ELSE /\ UNCHANGED chars
            /\ lastUpdate' = [lastUpdate EXCEPT !.pc = "threw", !.before = chars, !.after = chars]
  /\ editFrame

\* ----------------------------------------------------- queryGameData
\* A stored rules record is [id, type, name, rev, level]: level stands for
\* system.level.value (-1: the record has no such field), name for the
\* rank of the record's name in localeCompare order, id[3] for the rank of
\* its _id in the store's key order.
NoLevel == -1

\* the records a rules collection may hold
Records ==
  {[id |-> <<"own", "feats", 1>>, type |-> "feat", name |-> 2, rev |-> 1, level |-> 3],
   [id |-> <<"own", "feats", 2>>, type |-> "feat", name |-> 1, rev |-> 1, level |-> 3],
   [id |-> <<"own", "feats", 3>>, type |-> "feat", name |-> 3, rev |-> 1, level |-> 1],
   [id |-> <<"own", "spells", 4>>, type |-> "spell", name |-> 1, rev |-> 1, level |-> 3],
   [id |-> <<"own", "ancestries", 5>>, type |-> "ancestry", name |-> 4, rev |-> 1, level |-> NoLevel]}

\* query.limit is undefined
NoLimit == -1

\* the GameDataQuery arguments (types.ts:220-225): type, level (NoLevel:
\* undefined), limit (NoLimit: undefined) and skip (0 or undefined)
Queries ==
  [type : {"feat", "spell", "class"}, level : {NoLevel, 1, 3},
   limit : {NoLimit} \cup 0..MaxLimit, skip : 0..1]

\* the selector queryGameData builds from query.type and query.level
\* (queries.ts:70-78)
Matches(doc, query) ==
  /\ doc.type = query.type
  /\ query.level # NoLevel => doc.level = query.level

\* the rows of a set of records in the order db.find returns them without
\* a sort: the key order of the index, i.e. by _id among records that
\* agree on the selector's fields
RECURSIVE ByKey(_)
ByKey(docs) ==
  IF docs = {} THEN <<>>
  ELSE LET first == CHOOSE d \in docs : \A e \in docs : d.id[3] <= e.id[3]
       IN <<first>> \o ByKey(docs \ {first})

\* limit: query.limit || 100, skip: query.skip || 0 (queries.ts:91-92,
\* 270-271): an undefined limit and a limit of 0 both become 100
Window(rows, query) ==
  LET limit == IF query.limit \notin {NoLimit, 0} THEN query.limit ELSE 100
      lo == query.skip + 1
      hi == Min(Len(rows), query.skip + limit)
  IN SubSeq(rows, lo, hi)

\* db.find({selector, limit, skip}) (queries.ts:89-93)
Find(db, query) == Window(ByKey({d \in db : Matches(d, query)}), query)

NoFind == [fn |-> "none", pc |-> "idle",
           query |-> [type |-> "feat", level |-> NoLevel, limit |-> NoLimit, skip |-> 0],
           result |-> <<>>]

\* queryGameData (queries.ts:64-100): getGameDataDB() throws when the
\* handle is null; else the rows db.find returns are returned as they are
queryGameData(query) ==
  /\ lastFind' = IF gamedataDB = 0
                   THEN [fn |-> "queryGameData", pc |-> "threw", query |-> query, result |-> <<>>]
                   ELSE [fn |-> "queryGameData", pc |-> "done", query |-> query,
                         result |-> Find(gamedata, query)]
  /\ UNCHANGED <<dbVars, syncVars, replVars, storeVars, lastGet, pcalls, qcall, crudVars>>

\* the character documents a collection may hold, as queryCharacters sees
\* them: level and classId of the sheet (types.ts:128-136), id[3] the rank
\* of the _id in key order
CharacterRecords ==
  {[id |-> <<"character", 1, 1>>, rev |-> 1, level |-> 1, classId |-> "fighter"],
   [id |-> <<"character", 1, 2>>, rev |-> 1, level |-> 3, classId |-> "fighter"],
   [id |-> <<"character", 1, 3>>, rev |-> 1, level |-> 3, classId |-> "wizard"]}

\* the CharacterQuery arguments (types.ts:227-232): level, minLevel,
\* maxLevel (NoLevel: undefined), classId ("": undefined), limit, skip
CharacterQueries ==
  [level : {NoLevel, 1, 3}, minLevel : {NoLevel, 2}, maxLevel : {NoLevel, 3},
   classId : {"", "fighter"}, limit : {NoLimit} \cup 0..MaxLimit, skip : 0..1]

\* the selector queryCharacters builds (queries.ts:248-266): selector.level
\* is query.level, and is replaced by the range object when minLevel or
\* maxLevel is given
MatchesCharacter(doc, query) ==
  /\ IF query.minLevel # NoLevel \/ query.maxLevel # NoLevel
       THEN /\ query.minLevel # NoLevel => doc.level >= query.minLevel
            /\ query.maxLevel # NoLevel => doc.level <= query.maxLevel
       ELSE query.level # NoLevel => doc.level = query.level
  /\ query.classId # "" => doc.classId = query.classId

\* queryCharacters (queries.ts:242-279)
queryCharacters(query) ==
  /\ lastFind' = IF charactersDB = 0
                   THEN [fn |-> "queryCharacters", pc |-> "threw", query |-> query, result |-> <<>>]
                   ELSE [fn |-> "queryCharacters", pc |-> "done", query |-> query,
                         result |-> Window(ByKey({d \in chars : MatchesCharacter(d, query)}), query)]
  /\ UNCHANGED <<dbVars, syncVars, replVars, storeVars, lastGet, pcalls, qcall, crudVars>>

InitQuery ==
  /\ lastFind = NoFind
  /\ pcalls = [c \in 1..MaxCalls |-> NoCall]
  /\ qcall = NoQuery
  /\ chars = {}
  /\ lastCreate = NoCreate
  /\ lastUpdate = NoUpdate

\* ---------------------------------------------------------------- Init
NoGet == [name |-> "none", ok |-> FALSE, initDone |-> FALSE]
NoSyncCall == [kind |-> "none", url |-> "", ok |-> FALSE]
Rev0 == Rev(<<1>>, 0)

\* module load: all handles null, no handler (part_000:17-19, 161). The
\* stores on disk hold one character that an earlier session created.
InitDb ==
  /\ gamedataDB = 0 /\ charactersDB = 0 /\ preferencesDB = 0
  /\ charactersSyncHandler = 0
  /\ nextInst = 1
  /\ closed = {}
  /\ indexes = [n \in {"gamedata", "characters", "preferences"} |-> {}]
  /\ handlers = <<>>
  /\ localRevs = {Rev0}
  /\ remoteRevs = [u \in GoodUrls |-> {Rev0}]
  /\ prefsRevs = {}
  /\ gamedata = {}
  /\ now = 1
  /\ op = Idle
  /\ initDone = FALSE
  /\ lastDone = "none"
  /\ lastGet = NoGet
  /\ lastSyncCall = NoSyncCall
  /\ callerDoc = NoDoc
  /\ variant = "manifest"
  /\ packFiles = <<>>
  /\ badPack = "none"
  /\ dataLoaded = FALSE
  /\ dataLoadedAt = 0
  /\ runs = [r \in 1..MaxRuns |-> NoRun]
  /\ submitted = {}
  /\ snap = [pk \in AllPacks |-> [taken |-> FALSE, docs |-> {}]]
  /\ InitQuery

NextDb ==
  \/ initDatabases_begin
  \/ createIndexes_step
  \/ createIndexes_fail
  \/ closeDatabases_begin
  \/ destroyDatabases_begin
  \/ closeDatabases_step
  \/ destroyDatabases_step
  \/ \E name \in {"gamedata", "characters", "preferences"} : getDB(name)
  \/ \E url \in Urls : startCharactersSync(url)
  \/ stopCharactersSync

SpecDb == InitDb /\ [][NextDb]_vars


\* the state after initDatabases() has returned (part_000:24-39); the clock
\* still reads what it read when the stored character was stamped, or more
InitRepl ==
  /\ gamedataDB = 1 /\ charactersDB = 1 /\ preferencesDB = 1
  /\ charactersSyncHandler = 0
  /\ nextInst = 2
  /\ closed = {}
  /\ indexes = [n \in {"gamedata", "characters", "preferences"} |->
                 {IndexPlan[k][2] : k \in {j \in 1..Len(IndexPlan) : IndexPlan[j][1] = n}}]
  /\ handlers = <<>>
  /\ localRevs = {Rev0}
  /\ remoteRevs = [u \in GoodUrls |-> {Rev0}]
  /\ prefsRevs = {}
  /\ gamedata = {}
  /\ now \in 0..1
  /\ op = Idle
  /\ initDone = TRUE
  /\ lastDone = "init"
  /\ lastGet = NoGet
  /\ lastSyncCall = NoSyncCall
  /\ callerDoc = NoDoc
  /\ variant = "manifest"
  /\ packFiles = <<>>
  /\ badPack = "none"
  /\ dataLoaded = FALSE
  /\ dataLoadedAt = 0
  /\ runs = [r \in 1..MaxRuns |-> NoRun]
  /\ submitted = {}
  /\ snap = [pk \in AllPacks |-> [taken |-> FALSE, docs |-> {}]]
  /\ InitQuery

NextRepl ==
  \/ \E url \in Urls : startCharactersSync(url)
  \/ stopCharactersSync
  \/ tick
  \/ getCharacterById
  \/ updateCharacter
  \/ deleteCharacter_get
  \/ deleteCharacter_remove
  \/ \E u \in GoodUrls : remoteWrite(u)
  \/ \E h \in 1..Len(handlers) : syncPush(h)
  \/ \E h \in 1..Len(handlers) : syncPull(h)

SpecRepl == InitRepl /\ [][NextRepl]_vars

\* first launch of an installation: nothing initialised, nothing imported;
\* the build in use and the served pack content are fixed for the run
InitLoad ==
  /\ gamedataDB = 0 /\ charactersDB = 0 /\ preferencesDB = 0
  /\ charactersSyncHandler = 0
  /\ nextInst = 1
  /\ closed = {}
  /\ indexes = [n \in {"gamedata", "characters", "preferences"} |-> {}]
  /\ handlers = <<>>
  /\ localRevs = {}
  /\ remoteRevs = [u \in GoodUrls |-> {}]
  /\ prefsRevs = {}
  /\ gamedata = {}
  /\ now = 1
  /\ op = Idle
  /\ initDone = FALSE
  /\ lastDone = "none"
  /\ lastGet = NoGet
  /\ lastSyncCall = NoSyncCall
  /\ callerDoc = NoDoc
  /\ variant \in {"manifest", "json"}
  /\ packFiles \in FileConfigs
  /\ badPack \in BadPacks
  /\ dataLoaded = FALSE
  /\ dataLoadedAt = 0
  /\ runs = [r \in 1..MaxRuns |-> NoRun]
  /\ submitted = {}
  /\ snap = [pk \in AllPacks |-> [taken |-> FALSE, docs |-> {}]]
  /\ InitQuery

OptionalLists == {<<pk>> : pk \in Range(OPTIONAL_PACKS)} \cup {<<pk, pk>> : pk \in Range(OPTIONAL_PACKS)}

NextLoad ==
  \/ \E r \in 1..MaxRuns : initialize_start(r)
  \/ \E r \in 1..MaxRuns : initialize_resume(r)
  \/ createIndexes_step
  \/ createIndexes_fail
  \/ \E r \in 1..MaxRuns : loadCoreGameData_start(r)
  \/ \E r \in 1..MaxRuns, packs \in OptionalLists : loadOptionalGameData_start(r, packs)
  \/ \E r \in 1..MaxRuns : loadPack_begin(r)
  \/ \E r \in 1..MaxRuns : loadPack_manifest(r)
  \/ \E r \in 1..MaxRuns : loadPack_batch(r)
  \/ \E r \in 1..MaxRuns : loadPack_fetch(r)
  \/ \E r \in 1..MaxRuns : loadPack_write(r)
  \/ reload

SpecLoad == InitLoad /\ [][NextLoad]_vars

\* the preferences store of an initialised installation, empty or holding
\* the document an earlier session left
InitPrefs ==
  /\ gamedataDB = 1 /\ charactersDB = 1 /\ preferencesDB = 1
  /\ charactersSyncHandler = 0
  /\ nextInst = 2
  /\ closed = {}
  /\ indexes = [n \in {"gamedata", "characters", "preferences"} |->
                 {IndexPlan[k][2] : k \in {j \in 1..Len(IndexPlan) : IndexPlan[j][1] = n}}]
  /\ handlers = <<>>
  /\ localRevs = {}
  /\ remoteRevs = [u \in GoodUrls |-> {}]
  /\ prefsRevs \in {{}, {[defaultPrefs EXCEPT !.rev = 1]},
                    {[rev |-> 2, theme |-> "light", sounds |-> FALSE]}}
  /\ gamedata = {}
  /\ now = 1
  /\ op = Idle
  /\ initDone = TRUE
  /\ lastDone = "init"
  /\ lastGet = NoGet
  /\ lastSyncCall = NoSyncCall
  /\ callerDoc = NoDoc
  /\ variant = "manifest"
  /\ packFiles = <<>>
  /\ badPack = "none"
  /\ dataLoaded = FALSE
  /\ dataLoadedAt = 0
  /\ runs = [r \in 1..MaxRuns |-> NoRun]
  /\ submitted = {}
  /\ snap = [pk \in AllPacks |-> [taken |-> FALSE, docs |-> {}]]
  /\ InitQuery

NextPrefs ==
  \/ \E c \in 1..MaxCalls : getPreferences_start(c)
  \/ \E c \in 1..MaxCalls, updates \in Partials : updatePreferences_start(c, updates)
  \/ \E c \in 1..MaxCalls : getPreferences_get(c)
  \/ \E c \in 1..MaxCalls : getPreferences_put(c)
  \/ \E c \in 1..MaxCalls : updatePreferences_put(c)

SpecPrefs == InitPrefs /\ [][NextPrefs]_vars

\* an initialised installation in which no character has been created yet
InitCrud ==
  /\ gamedataDB = 1 /\ charactersDB = 1 /\ preferencesDB = 1
  /\ charactersSyncHandler = 0
  /\ nextInst = 2
  /\ closed = {}
  /\ indexes = [n \in {"gamedata", "characters", "preferences"} |->
                 {IndexPlan[k][2] : k \in {j \in 1..Len(IndexPlan) : IndexPlan[j][1] = n}}]
  /\ handlers = <<>>
  /\ localRevs = {}
  /\ remoteRevs = [u \in GoodUrls |-> {}]
  /\ prefsRevs = {}
  /\ gamedata = {}
  /\ now = 1
  /\ op = Idle
  /\ initDone = TRUE
  /\ lastDone = "init"
  /\ lastGet = NoGet
  /\ lastSyncCall = NoSyncCall
  /\ callerDoc = NoDoc
  /\ variant = "manifest"
  /\ packFiles = <<>>
  /\ badPack = "none"
  /\ dataLoaded = FALSE
  /\ dataLoadedAt = 0
  /\ runs = [r \in 1..MaxRuns |-> NoRun]
  /\ submitted = {}
  /\ snap = [pk \in AllPacks |-> [taken |-> FALSE, docs |-> {}]]
  /\ InitQuery

NextCrud ==
  \/ tick
  \/ \E character \in Inputs : createCharacter_start(character)
  \/ createCharacter_put

SpecCrud == InitCrud /\ [][NextCrud]_vars

\* creating, updating and deleting characters of one collection, within one
\* reading of the clock
NextEdit ==
  \/ \E character \in Sheets : createCharacter_start(character)
  \/ createCharacter_put
  \/ \E character \in CharacterDocs : updateCharacter_start(character)
  \/ updateCharacter_put
  \/ \E id \in CharIds : deleteCharacter_getById(id)
  \/ deleteCharacter_gotDoc
  \/ deleteCharacter_removeDoc

SpecEdit == InitCrud /\ [][NextEdit]_vars

\* a running installation, before or after a completed core import, that is
\* reset: the character collection holds a document, the flag of an earlier
\* import is in localStorage; the single-JSON build serves one record per pack
InitReset ==
  /\ gamedataDB = 1 /\ charactersDB = 1 /\ preferencesDB = 1
  /\ charactersSyncHandler = 0
  /\ nextInst = 2
  /\ closed = {}
  /\ indexes = [n \in {"gamedata", "characters", "preferences"} |->
                 {IndexPlan[k][2] : k \in {j \in 1..Len(IndexPlan) : IndexPlan[j][1] = n}}]
  /\ handlers = <<>>
  /\ localRevs = {Rev0}
  /\ remoteRevs = [u \in GoodUrls |-> {}]
  /\ prefsRevs = {}
  /\ gamedata = {}
  /\ now = 2
  /\ op = Idle
  /\ initDone = TRUE
  /\ lastDone = "init"
  /\ lastGet = NoGet
  /\ lastSyncCall = NoSyncCall
  /\ callerDoc = NoDoc
  /\ variant = "json"
  /\ packFiles = <<"id">>
  /\ badPack = "none"
  /\ dataLoaded \in BOOLEAN
  /\ dataLoadedAt = IF dataLoaded THEN 1 ELSE 0
  /\ runs = [r \in 1..MaxRuns |-> NoRun]
  /\ submitted = {}
  /\ snap = [pk \in AllPacks |-> [taken |-> FALSE, docs |-> {}]]
  /\ InitQuery

NextReset ==
  \/ destroyDatabases_begin
  \/ closeDatabases_step
  \/ destroyDatabases_step
  \/ initDatabases_begin
  \/ createIndexes_step
  \/ \E r \in 1..MaxRuns : initialize_start(r)
  \/ \E r \in 1..MaxRuns : initialize_resume(r)
  \/ \E r \in 1..MaxRuns : loadPack_begin(r)
  \/ \E r \in 1..MaxRuns : loadPack_fetch(r)
  \/ \E r \in 1..MaxRuns : loadPack_write(r)

SpecReset == InitReset /\ [][NextReset]_vars

\* an initialised installation whose rules and characters collections hold
\* records
InitFind ==
  /\ gamedataDB = 1 /\ charactersDB = 1 /\ preferencesDB = 1
  /\ charactersSyncHandler = 0
  /\ nextInst = 2
  /\ closed = {}
  /\ indexes = [n \in {"gamedata", "characters", "preferences"} |->
                 {IndexPlan[k][2] : k \in {j \in 1..Len(IndexPlan) : IndexPlan[j][1] = n}}]
  /\ handlers = <<>>
  /\ localRevs = {}
  /\ remoteRevs = [u \in GoodUrls |-> {}]
  /\ prefsRevs = {}
  /\ gamedata \in SUBSET Records
  /\ now = 1
  /\ op = Idle
  /\ initDone = TRUE
  /\ lastDone = "init"
  /\ lastGet = NoGet
  /\ lastSyncCall = NoSyncCall
  /\ callerDoc = NoDoc
  /\ variant = "manifest"
  /\ packFiles = <<>>
  /\ badPack = "none"
  /\ dataLoaded = FALSE
  /\ dataLoadedAt = 0
  /\ runs = [r \in 1..MaxRuns |-> NoRun]
  /\ submitted = {}
  /\ snap = [pk \in AllPacks |-> [taken |-> FALSE, docs |-> {}]]
  /\ lastFind = NoFind
  /\ pcalls = [c \in 1..MaxCalls |-> NoCall]
  /\ qcall = NoQuery
  /\ chars \in {{}, CharacterRecords}
  /\ lastCreate = NoCreate
  /\ lastUpdate = NoUpdate

NextFind ==
  \/ \E query \in Queries : queryGameData(query)
  \/ \E query \in CharacterQueries : queryCharacters(query)

SpecFind == InitFind /\ [][NextFind]_vars

\* ======================================================================
\* C1: at most one replication handler that has not been cancelled exists;
\* every handler was created when no other uncancelled handler existed
\* (the old one is cancelled before the new one is made); and after a
\* successful startCharactersSync(url) the one live handler is the one in
\* the slot, against url.
C1_SingleLiveHandler ==
  /\ Cardinality(LiveHandlers) <= 1
  /\ \A h \in 1..Len(handlers) : handlers[h].liveAtCreate = 0
  /\ (lastSyncCall.kind = "start" /\ lastSyncCall.ok) =>
       /\ charactersSyncHandler # 0
       /\ LiveHandlers = {charactersSyncHandler}
       /\ handlers[charactersSyncHandler].url = lastSyncCall.url

\* start(A) then start(B): the handler against A is cancelled, B is live
C1_Witness ==
  /\ Len(handlers) = 2
  /\ handlers[1].url = "A" /\ handlers[1].cancelled
  /\ handlers[2].url = "B" /\ ~handlers[2].cancelled
  /\ lastSyncCall = [kind |-> "start", url |-> "B", ok |-> TRUE]

\* C2 (as claimed): once a replicating handler has brought the local and
\* the remote store to the same two divergent revisions with different
\* updatedAt, the surviving (winning) revision on both sides is the one
\* with the later updatedAt.
C2_LastWriteWins ==
  \A h \in 1..Len(handlers) :
    LET remote == remoteRevs[handlers[h].url]
    IN (/\ Replicating(h)
        /\ localRevs = remote
        /\ Cardinality(localRevs) = 2
        /\ \A a, b \in localRevs : a # b => a.updatedAt # b.updatedAt)
       => \A r \in localRevs : r.updatedAt <= Winner(localRevs).updatedAt

\* C3 (as claimed): once destroyDatabases has destroyed a collection, and
\* after it has finished, no uncancelled replication handler exists.
C3_ResetCancelsHandlerFirst ==
  ((op.name = "destroy" /\ op.step >= 2) \/ (op = Idle /\ lastDone = "destroy"))
    => LiveHandlers = {}

\* C4 (as claimed): an accessor called before initDatabases() has completed
\* throws and returns no handle.
C4_AccessorThrowsBeforeInitCompletes ==
  (lastGet.name # "none" /\ ~lastGet.initDone) => ~lastGet.ok


\* the pack of the loadPack invocation a run made last
LastPack(run) == run.attempts[Len(run.attempts)]

ValidFiles == {k \in DOMAIN packFiles : packFiles[k] # "bad"}

C6_PartialFailureIsolated ==
  \A r \in 1..MaxRuns :
    (/\ variant = "manifest"
     /\ runs[r].outcome # "none" /\ runs[r].wrote
     /\ \E k \in DOMAIN packFiles : packFiles[k] = "bad")
    => /\ runs[r].outcome = "returned"
       /\ runs[r].count = Cardinality(ValidFiles)
       /\ \A k \in ValidFiles :
            \E d \in gamedata : d.id = GameDataDocOf(LastPack(runs[r]), k).id

IsPrefixEq(p, q) == Len(p) <= Len(q) /\ SubSeq(q, 1, Len(p)) = p

\* C7: loadCoreGameData calls loadPack for the core packs in list order,
\* each once, goes on after a loadPack that threw, and does not throw: the
\* packs attempted so far are a prefix of CORE_PACKS, and are all of
\* CORE_PACKS when the import has ended.
C7_AllCorePacksAttempted ==
  \A r \in 1..MaxRuns :
    runs[r].kind = "initialize" =>
      /\ runs[r].pc # "threw"
      /\ IsPrefixEq(runs[r].attempts, CORE_PACKS)
      /\ (runs[r].pc = "done" /\ runs[r].list # <<>>) => runs[r].attempts = CORE_PACKS

\* a core import has ended in which some but not all loadPack calls threw
C7_Witness ==
  \E r \in 1..MaxRuns :
    /\ runs[r].kind = "initialize" /\ runs[r].pc = "done"
    /\ runs[r].attempts = CORE_PACKS
    /\ runs[r].failed >= 1 /\ runs[r].failed < Len(CORE_PACKS)

C9_ProgressAtStartAndEnd ==
  \A r \in 1..MaxRuns :
    runs[r].outcome # "none" =>
      LET ev == runs[r].events
      IN /\ Len(ev) >= 2
         /\ ev[1].status = "loading"
         /\ ev[Len(ev)].status \in {"complete", "error"}
         /\ \A k \in DOMAIN ev : ev[k].pack = LastPack(runs[r])

\* C10 (as claimed): the category tag of a record handed to the rules
\* collection determines the pack it was imported from.
C10_TagDeterminesPack ==
  \A a, b \in submitted : a.doc.type = b.doc.type => a.pack = b.pack

\* C11 (as claimed): a finished loadPack that reached its bulk write has
\* returned, the returned count is the number of records of the invocation
\* that are in the rules collection (all of them on a first import of valid,
\* distinct records), and its last progress event is "complete" with that
\* count as loaded.
C11_ReturnsWrittenCount ==
  \A r \in 1..MaxRuns :
    (runs[r].outcome # "none" /\ runs[r].wrote) =>
      LET pk == LastPack(runs[r])
          ev == runs[r].events
      IN /\ runs[r].outcome = "returned"
         /\ runs[r].count = Cardinality(StoredOf(gamedata, pk))
         /\ Cardinality(StoredOf(gamedata, pk)) = Cardinality(ValidFiles)
         /\ ev # <<>>
         /\ ev[Len(ev)] = Event(pk, runs[r].count, ev[Len(ev)].total, "complete")

\* C12 (as claimed): an updatePreferences(partial) call that no other call
\* overlaps or precedes finishes without error, whatever the preferences
\* store held (nothing included); the store then holds the document it
\* returned, which is the stored-or-default fields overridden by the partial.
C12_UpdateAlwaysSucceeds ==
  \A c \in 1..MaxCalls :
    (/\ pcalls[c].kind = "update" /\ Finished(pcalls[c])
     /\ \A d \in 1..MaxCalls : d # c => pcalls[d].kind = "none")
    => /\ pcalls[c].pc = "done"
       /\ prefsRevs = {pcalls[c].doc}
       /\ \A f \in DOMAIN pcalls[c].updates : pcalls[c].doc[f] = pcalls[c].updates[f]

\* C13 (as claimed): a getPreferences() that found the store empty created
\* the default; a following getPreferences() returns the identical document
\* and writes nothing.
C13_SecondGetIdentical ==
  \A c, d \in 1..MaxCalls :
    (/\ pcalls[c].kind = "get" /\ pcalls[c].pc = "done" /\ pcalls[c].wrote
     /\ pcalls[d].kind = "get" /\ pcalls[d].pc = "done" /\ c \in pcalls[d].prior)
    => /\ pcalls[d].doc = pcalls[c].doc
       /\ ~pcalls[d].wrote

\* C14 (as claimed): when only getPreferences() calls are made, overlapping
\* or not, none of them fails, each returns the default field values, and
\* the store never holds more than one preferences document.
C14_AbsentReadNeverErrors ==
  (\A c \in 1..MaxCalls : pcalls[c].kind \in {"none", "get"}) =>
    /\ Cardinality(prefsRevs) <= 1
    /\ \A c \in 1..MaxCalls :
         /\ pcalls[c].pc # "threw"
         /\ (pcalls[c].pc = "done" /\ prefsRevs = {[defaultPrefs EXCEPT !.rev = 1]})
              => [pcalls[c].doc EXCEPT !.rev = 0] = defaultPrefs

\* C15 (as claimed): updateCharacter never ends with the revision conflict
\* as an exception, also when a newer revision of the character arrived
\* between the caller's getCharacterById and its updateCharacter.
C15_UpdateNeverThrowsConflict ==
  qcall.name = "update" => qcall.pc = "done"

\* C17 (as claimed): right after a successful updateCharacter(doc),
\* getCharacterById returns the document the update wrote, and its updatedAt
\* is strictly later than the updatedAt stored before the update.
C17_UpdatedAtStrictlyLater ==
  (qcall.name = "update" /\ qcall.pc = "done" /\ localRevs = qcall.revsAfter) =>
    /\ Get(localRevs) = qcall.doc
    /\ Get(localRevs).updatedAt > qcall.before

\* C18 (as claimed): after a successful deleteCharacter(id), as long as no
\* revision of the document has been written since, getCharacterById(id)
\* returns null and getAllCharacters() lists no document with that id.
C18_DeletedStaysGone ==
  (qcall.name = "delete" /\ qcall.pc = "done" /\ localRevs = qcall.revsAfter) =>
    /\ Get(localRevs) = NoDoc
    /\ AllCharacters(localRevs) = {}

\* C16 (as claimed): every createCharacter(input) call, whatever fields the
\* input carries, ends by storing exactly one new document and returning it.
C16_CreateStoresAnyInput ==
  (lastCreate.pc \in {"done", "threw"}) =>
    /\ lastCreate.pc = "done"
    /\ lastCreate.after = lastCreate.before \cup {lastCreate.doc}
    /\ lastCreate.doc \notin lastCreate.before

\* C16 (amended): createCharacter(input) of an input without _rev stores
\* exactly one new document, whose _id is the generated one, whose createdAt
\* and updatedAt are the clock reading of the call and whose version is 1,
\* whatever the input carried in those fields; getCharacterById of the
\* returned _id yields the returned document, which equals the input in
\* every other field. An input that carries _rev is rejected by the store
\* and nothing is stored.
C16_CreateAssignsIdentity ==
  (lastCreate.pc \in {"done", "threw"}) =>
    IF "rev" \in DOMAIN lastCreate.input
      THEN lastCreate.pc = "threw" /\ lastCreate.after = lastCreate.before
      ELSE LET doc == lastCreate.doc
           IN /\ lastCreate.pc = "done"
              /\ lastCreate.after = lastCreate.before \cup {doc}
              /\ \A d \in lastCreate.before : d.id # doc.id
              /\ doc.id[1] = lastCreate.at /\ doc.id # Supplied.id
              /\ doc.createdAt = lastCreate.at /\ doc.updatedAt = lastCreate.at
              /\ doc.version = 1 /\ doc.rev = 1
              /\ GetCreated(lastCreate.after, doc.id) = {doc}
              /\ \A f \in DOMAIN lastCreate.input \ LeftOut : doc[f] = lastCreate.input[f]

\* a second character was created from an input that carried its own _id,
\* createdAt, updatedAt and version
C16_Witness ==
  /\ lastCreate.pc = "done"
  /\ Cardinality(chars) = 2
  /\ DOMAIN lastCreate.input = {"name", "id", "createdAt", "updatedAt", "version"}
  /\ lastCreate.doc \in chars

\* C19 (as claimed): an import whose loadPack met the uninitialised store
\* (it threw before reporting any event) has stopped with that error, and
\* the data-loaded flag is not set.
C19_UninitializedPropagates ==
  \A r \in 1..MaxRuns :
    (runs[r].outcome = "threw" /\ runs[r].events = <<>>) =>
      /\ runs[r].pc = "threw"
      /\ ~dataLoaded

\* C20 (as claimed): queryGameData({type: T, level: L}) returns only records
\* of type T whose level is L, in ascending order of name, and an empty list
\* (no error) when no record matches.
C20_QuerySortedByName ==
  (lastFind.fn = "queryGameData" /\ lastFind.query.level # NoLevel) =>
    LET res == lastFind.result
    IN /\ lastFind.pc = "done"
       /\ \A k \in DOMAIN res :
            res[k].type = lastFind.query.type /\ res[k].level = lastFind.query.level
       /\ \A j, k \in DOMAIN res : j < k => res[j].name <= res[k].name
       /\ (\A d \in gamedata : ~Matches(d, lastFind.query)) => res = <<>>

\* C22 (as claimed): isSyncActive() is true exactly when a replication
\* handler that was started and has not been cancelled exists, after every
\* sequence of startCharactersSync / stopCharactersSync calls, one that
\* threw included.
C22_ActiveIffLiveHandler ==
  isSyncActive <=> LiveHandlers # {}

\* C23 (as claimed): once destroyDatabases() has completed, the three
\* collections exist and are empty and the three accessors return them,
\* without a further initDatabases() call.
C23_ResetRecreatesCollections ==
  (lastDone = "destroy" /\ op = Idle) =>
    /\ \A k \in DOMAIN DbNames : Handle(DbNames[k]) # 0
    /\ gamedata = {} /\ localRevs = {} /\ prefsRevs = {}

\* C25 (as claimed): the core import runs once per installation: of the
\* initialize() runs RootLayout has started in one page session, at most one
\* has entered loadCoreGameData, overlapping runs included.
C25_ImportRunsOnce ==
  Cardinality({r \in 1..MaxRuns : runs[r].caller = "RootLayout"
                                    /\ runs[r].list = CORE_PACKS}) <= 1

\* C26: no step of a loadOptionalGameData run, whatever its pack list and
\* whether its loadPack calls return or throw, changes the data-loaded flag
\* or its timestamp.
C26_OptionalLeavesFlag ==
  [][(\E r \in 1..MaxRuns : /\ runs'[r] # runs[r]
                            /\ runs'[r].kind = "optional"
                            /\ runs'[r].pc # "dead")
       => UNCHANGED <<dataLoaded, dataLoadedAt>>]_vars

\* a loadOptionalGameData run over two packs has ended with the flag unset,
\* after a core import that did not complete
C26_Witness ==
  /\ ~dataLoaded /\ dataLoadedAt = 0
  /\ \E r \in 1..MaxRuns :
       /\ runs[r].kind = "optional" /\ runs[r].pc = "done"
       /\ Len(runs[r].attempts) = 2

\* the indexes createIndexes declares on a store
Declared(name) == {IndexPlan[k][2] : k \in {j \in DOMAIN IndexPlan : IndexPlan[j][1] = name}}

\* C27: initDatabases() can be called again on initialised stores: no step
\* of it changes the documents of a collection, and when a call has
\* returned, the first or a later one, each collection has exactly the
\* declared indexes.
C27_InitIdempotent ==
  [][op.name = "init" =>
       /\ UNCHANGED <<gamedata, localRevs, prefsRevs>>
       /\ (op' = Idle /\ lastDone' = "init") =>
            \A k \in DOMAIN DbNames : indexes'[DbNames[k]] = Declared(DbNames[k])]_vars

\* initDatabases() has returned twice, nothing was closed or destroyed in
\* between, and the characters collection holds its document
C27_Witness ==
  /\ nextInst = 3 /\ op = Idle /\ lastDone = "init" /\ closed = {}
  /\ localRevs = {Rev0}
  /\ indexes["characters"] = Declared("characters")

\* C29: closeDatabases() does not cancel or clear the replication handler:
\* when closeDatabases() has returned after a successful
\* startCharactersSync(url), isSyncActive() is true and the handler is
\* still running, while the characters handle is null (getCharactersDB()
\* throws).
C29_CloseKeepsHandler ==
  (op = Idle /\ lastDone = "close" /\ lastSyncCall.kind = "start" /\ lastSyncCall.ok) =>
    /\ isSyncActive
    /\ charactersSyncHandler \in LiveHandlers
    /\ Handle("characters") = 0

\* startCharactersSync("A"), closeDatabases(), then getCharactersDB() threw
C29_Witness ==
  /\ op = Idle /\ lastDone = "close"
  /\ lastSyncCall = [kind |-> "start", url |-> "A", ok |-> TRUE]
  /\ isSyncActive
  /\ lastGet = [name |-> "characters", ok |-> FALSE, initDone |-> FALSE]

\* C30: when initDatabases() has rejected (a createIndex failed), the three
\* handles it assigned are still set: isDatabasesInitialized() is true and
\* the accessors return the handles.
C30_FailedInitKeepsHandles ==
  (op = Idle /\ lastDone = "initFailed") =>
    /\ isDatabasesInitialized
    /\ \A k \in DOMAIN DbNames : Handle(DbNames[k]) # 0

\* initDatabases() rejected on never initialised stores, then
\* getGameDataDB() returned a handle
C30_Witness ==
  /\ op = Idle /\ lastDone = "initFailed" /\ ~initDone
  /\ isDatabasesInitialized
  /\ lastGet = [name |-> "gamedata", ok |-> TRUE, initDone |-> FALSE]

AllCriteria(fn, query) ==
  IF fn = "queryGameData"
    THEN {d \in gamedata : /\ d.type = query.type
                           /\ query.level # NoLevel => d.level = query.level}
    ELSE {d \in chars : /\ query.level # NoLevel => d.level = query.level
                        /\ query.minLevel # NoLevel => d.level >= query.minLevel
                        /\ query.maxLevel # NoLevel => d.level <= query.maxLevel
                        /\ query.classId # "" => d.classId = query.classId}

\* C21 (as claimed): queryGameData and queryCharacters return, of the
\* records that satisfy all given criteria together, the window that starts
\* after `skip` records and holds at most `limit` records when a limit is
\* given (for every value of it), and every such record from `skip` on when
\* no limit is given.
C21_WindowOfAllCriteria ==
  (lastFind.fn # "none" /\ lastFind.pc = "done") =>
    LET query == lastFind.query
        all == ByKey(AllCriteria(lastFind.fn, query))
        hi == IF query.limit = NoLimit THEN Len(all)
              ELSE Min(Len(all), query.skip + query.limit)
    IN lastFind.result = SubSeq(all, query.skip + 1, hi)

\* C28: no step of destroyDatabases() changes the data-loaded flag or its
\* timestamp, and its last step leaves the rules collection empty; an initialize() run of
\* RootLayout that reaches its isDataLoaded() test while the flag is set,
\* after a reset included, ends without importing, so the rules collection
\* stays as the reset left it.
C28_ResetKeepsFlag ==
  [][/\ (op.name \in {"close", "destroy"} /\ op' # op) =>
          /\ UNCHANGED <<dataLoaded, dataLoadedAt>>
          /\ lastDone' = "destroy" /\ lastDone # "destroy" => gamedata' = {}
     /\ \A r \in 1..MaxRuns :
          (/\ dataLoaded
           /\ runs[r].pc \in {"idle", "awaitInit"}
           /\ runs'[r].caller = "RootLayout"
           /\ runs'[r].pc \notin {"idle", "awaitInit", "error", "dead"})
            => /\ runs'[r].pc = "done"
               /\ runs'[r].attempts = <<>>
               /\ UNCHANGED <<gamedata, dataLoaded, dataLoadedAt>>]_vars

\* the flag was set before destroyDatabases(); the stores were destroyed and
\* initialised again, and an initialize() run has ended without an import
\* over the empty rules collection
C28_Witness ==
  /\ dataLoaded /\ dataLoadedAt = 1
  /\ closed # {} /\ nextInst = 3 /\ lastDone = "init" /\ op = Idle
  /\ isDatabasesInitialized
  /\ gamedata = {} /\ localRevs = {}
  /\ \E r \in 1..MaxRuns :
       runs[r].caller = "RootLayout" /\ runs[r].pc = "done" /\ runs[r].attempts = <<>>

=============================================================================
